---- MODULE Spec2Model ----
(***************************************************************************)
(* Model of the reset coordination of demo/demo-worker.js (wa-sqlite).     *)
(* Every worker (execution context) runs maybeReset() once at start-up and *)
(* then opens the database.  The contexts share nothing but the origin's   *)
(* Web Locks manager (navigator.locks) with its two lock names             *)
(* 'demo-worker-outer' and 'demo-worker-inner'.                            *)
(***************************************************************************)
EXTENDS Naturals, Integers, Sequences, FiniteSets, TLC

\* Number of concurrently started workers.
NumCtx == 3

Ctx == 1..NumCtx

OUTER == "demo-worker-outer"
INNER == "demo-worker-inner"
LockNames == {OUTER, INNER}
Modes == {"exclusive", "shared"}

\* Error carried by the rejection of maybeReset().
NoError == "none"
ClearError == "clearing failed"
MarkerError == "failed to acquire inner lock"

\* The lock argument of the probe callback: not called yet, a lock, or null.
ProbeValues == {"pending", "granted", "null"}

PcValues == {"start", "waitOuter", "probe", "clearing", "skipped", "marker",
             "marked", "done", "using", "failed", "terminated"}

VARIABLES
  reset,      \* reset[c]: searchParams.has('reset') in worker c
  exclusive,  \* exclusive[c]: searchParams.has('exclusive') in worker c
  pc,         \* pc[c]: where worker c is in maybeReset() / its continuation
  probe,      \* probe[c]: what the probe callback of worker c was given
  error,      \* error[c]: the error maybeReset() rejected with, if any
  held,       \* lock manager: the granted locks, records [name, mode, ctx]
  queue       \* lock manager: per name, the pending requests [mode, ctx]

vars == <<reset, exclusive, pc, probe, error, held, queue>>

TypeOK ==
  /\ reset \in [Ctx -> BOOLEAN]
  /\ exclusive \in [Ctx -> BOOLEAN]
  /\ pc \in [Ctx -> PcValues]
  /\ probe \in [Ctx -> ProbeValues]
  /\ error \in [Ctx -> {NoError, ClearError, MarkerError}]
  /\ held \subseteq [name : LockNames, mode : Modes, ctx : Ctx]
  /\ \A n \in LockNames :
       \A i \in 1..Len(queue[n]) : queue[n][i] \in [mode : Modes, ctx : Ctx]

(***************************************************************************)
(* The lock manager.                                                       *)
(***************************************************************************)

ConflictsBothExclusive(m1, m2) == m1 = "exclusive" /\ m2 = "exclusive"

\* Two modes on the same name exclude each other unless both are shared.
Conflicts(m1, m2) == m1 = "exclusive" \/ m2 = "exclusive"

\* Positions of the requests queued on name ahead of c's request (all of
\* them when c has nothing queued, as for an ifAvailable request).
QueuedBefore(name, c) ==
  LET q == queue[name]
  IN  {i \in 1..Len(q) : \A j \in 1..i : q[j].ctx # c}

GrantableAlways(name, mode, c) == TRUE

\* A request of c is granted when no held lock on the name conflicts with it
\* and no request on the name is queued ahead of it.
Grantable(name, mode, c) ==
  /\ \A h \in held : h.name = name => ~Conflicts(h.mode, mode)
  /\ QueuedBefore(name, c) = {}

Lock(name, mode, c) == [name |-> name, mode |-> mode, ctx |-> c]

Holds(c, name) == \E h \in held : h.name = name /\ h.ctx = c

HoldsIn(c, name, mode) == Lock(name, mode, c) \in held

Released(name, c) == {h \in held : ~(h.name = name /\ h.ctx = c)}

Dequeued(name, c) ==
  LET NotC(r) == r.ctx # c
  IN  [queue EXCEPT ![name] = SelectSeq(queue[name], NotC)]

(***************************************************************************)
(* maybeReset()                                                            *)
(***************************************************************************)

HasResetAlways(c) == TRUE

\* if (searchParams.has('reset'))
HasReset(c) == reset[c]

ProbeModeShared == "shared"

\* The probe passes no mode: the default, exclusive.
ProbeMode == "exclusive"

MarkerModeShared(c) == "shared"

\* const mode = searchParams.has('exclusive') ? 'exclusive' : 'shared'
MarkerMode(c) == IF exclusive[c] THEN "exclusive" ELSE "shared"

Init ==
  /\ reset \in [Ctx -> BOOLEAN]
  /\ exclusive \in [Ctx -> BOOLEAN]
  /\ pc = [c \in Ctx |-> "start"]
  /\ probe = [c \in Ctx |-> "pending"]
  /\ error = [c \in Ctx |-> NoError]
  /\ held = {}
  /\ queue = [n \in LockNames |-> <<>>]

\* Without the reset parameter maybeReset() returns at once.
NoReset(c) ==
  /\ pc[c] = "start"
  /\ ~HasReset(c)
  /\ pc' = [pc EXCEPT ![c] = "done"]
  /\ UNCHANGED <<reset, exclusive, probe, error, held, queue>>

\* navigator.locks.request('demo-worker-outer', ...): a blocking request.
RequestOuter(c) ==
  /\ pc[c] = "start"
  /\ HasReset(c)
  /\ queue' = [queue EXCEPT ![OUTER] =
                 Append(@, [mode |-> "exclusive", ctx |-> c])]
  /\ pc' = [pc EXCEPT ![c] = "waitOuter"]
  /\ UNCHANGED <<reset, exclusive, probe, error, held>>

GrantOuterUnserialized(c) ==
  /\ pc[c] = "waitOuter"
  /\ held' = held \cup {Lock(OUTER, "exclusive", c)}
  /\ queue' = Dequeued(OUTER, c)
  /\ pc' = [pc EXCEPT ![c] = "probe"]
  /\ UNCHANGED <<reset, exclusive, probe, error>>

\* The manager grants the outer lock; the callback hands out the releaser.
GrantOuter(c) ==
  /\ pc[c] = "waitOuter"
  /\ Grantable(OUTER, "exclusive", c)
  /\ held' = held \cup {Lock(OUTER, "exclusive", c)}
  /\ queue' = Dequeued(OUTER, c)
  /\ pc' = [pc EXCEPT ![c] = "probe"]
  /\ UNCHANGED <<reset, exclusive, probe, error>>

ProbeInnerIgnoringNull(c) ==
  /\ pc[c] = "probe"
  /\ held' = IF Grantable(INNER, ProbeMode, c)
               THEN held \cup {Lock(INNER, ProbeMode, c)}
               ELSE held
  /\ pc' = [pc EXCEPT ![c] = "clearing"]
  /\ probe' = [probe EXCEPT ![c] =
                 IF Grantable(INNER, ProbeMode, c) THEN "granted" ELSE "null"]
  /\ UNCHANGED <<reset, exclusive, error, queue>>

\* navigator.locks.request('demo-worker-inner', { ifAvailable: true }, ...):
\* the callback gets the lock, or null when it is not available.
ProbeInner(c) ==
  /\ pc[c] = "probe"
  /\ IF Grantable(INNER, ProbeMode, c)
       THEN /\ held' = held \cup {Lock(INNER, ProbeMode, c)}
            /\ probe' = [probe EXCEPT ![c] = "granted"]
            /\ pc' = [pc EXCEPT ![c] = "clearing"]
       ELSE /\ held' = held
            /\ probe' = [probe EXCEPT ![c] = "null"]
            /\ pc' = [pc EXCEPT ![c] = "skipped"]
  /\ UNCHANGED <<reset, exclusive, error, queue>>

ClearOkReleasingOuter(c) ==
  /\ pc[c] = "clearing"
  /\ held' = Released(OUTER, c) \cap Released(INNER, c)
  /\ pc' = [pc EXCEPT ![c] = "marker"]
  /\ UNCHANGED <<reset, exclusive, probe, error, queue>>

\* OPFS and IndexedDB are cleared; the callback's promise fulfils and the
\* probe lock is released.
ClearOk(c) ==
  /\ pc[c] = "clearing"
  /\ held' = Released(INNER, c)
  /\ pc' = [pc EXCEPT ![c] = "marker"]
  /\ UNCHANGED <<reset, exclusive, probe, error, queue>>

ClearFailKeepingLock(c) ==
  /\ pc[c] = "clearing"
  /\ pc' = [pc EXCEPT ![c] = "failed"]
  /\ error' = [error EXCEPT ![c] = ClearError]
  /\ UNCHANGED <<reset, exclusive, probe, held, queue>>

ClearFailSwallowed(c) ==
  /\ pc[c] = "clearing"
  /\ held' = Released(INNER, c)
  /\ pc' = [pc EXCEPT ![c] = "marker"]
  /\ error' = [error EXCEPT ![c] = ClearError]
  /\ UNCHANGED <<reset, exclusive, probe, queue>>

\* A removeEntry / deleteDatabase fails: the callback's promise rejects, the
\* probe lock is released and the awaited request rejects, so maybeReset()
\* rejects without reaching outerLockReleaser().
ClearFail(c) ==
  /\ pc[c] = "clearing"
  /\ held' = Released(INNER, c)
  /\ pc' = [pc EXCEPT ![c] = "failed"]
  /\ error' = [error EXCEPT ![c] = ClearError]
  /\ UNCHANGED <<reset, exclusive, probe, queue>>

\* console.warn('reset skipped ...'); the callback returns.
SkipReset(c) ==
  /\ pc[c] = "skipped"
  /\ pc' = [pc EXCEPT ![c] = "marker"]
  /\ UNCHANGED <<reset, exclusive, probe, error, held, queue>>

RequestMarkerNotRetained(c) ==
  /\ pc[c] = "marker"
  /\ IF Grantable(INNER, MarkerMode(c), c)
       THEN /\ pc' = [pc EXCEPT ![c] = "marked"]
            /\ error' = error
       ELSE /\ pc' = [pc EXCEPT ![c] = "failed"]
            /\ error' = [error EXCEPT ![c] = MarkerError]
  /\ UNCHANGED <<reset, exclusive, probe, held, queue>>

RequestMarkerBlocking(c) ==
  /\ pc[c] = "marker"
  /\ IF Grantable(INNER, MarkerMode(c), c)
       THEN /\ held' = held \cup {Lock(INNER, MarkerMode(c), c)}
            /\ queue' = Dequeued(INNER, c)
            /\ pc' = [pc EXCEPT ![c] = "marked"]
       ELSE /\ \A i \in 1..Len(queue[INNER]) : queue[INNER][i].ctx # c
            /\ queue' = [queue EXCEPT ![INNER] =
                           Append(@, [mode |-> MarkerMode(c), ctx |-> c])]
            /\ UNCHANGED <<held, pc>>
  /\ UNCHANGED <<reset, exclusive, probe, error>>

\* navigator.locks.request('demo-worker-inner', { mode, ifAvailable: true },
\* ...): with the lock the callback resolves and returns a promise that never
\* settles, so the lock is kept; with null it rejects.
RequestMarker(c) ==
  /\ pc[c] = "marker"
  /\ IF Grantable(INNER, MarkerMode(c), c)
       THEN /\ held' = held \cup {Lock(INNER, MarkerMode(c), c)}
            /\ pc' = [pc EXCEPT ![c] = "marked"]
            /\ error' = error
       ELSE /\ held' = held
            /\ pc' = [pc EXCEPT ![c] = "failed"]
            /\ error' = [error EXCEPT ![c] = MarkerError]
  /\ UNCHANGED <<reset, exclusive, probe, queue>>

ReleaseOuterForgotten(c) ==
  /\ pc[c] = "marked"
  /\ pc' = [pc EXCEPT ![c] = "done"]
  /\ UNCHANGED <<reset, exclusive, probe, error, held, queue>>

\* outerLockReleaser()
ReleaseOuter(c) ==
  /\ pc[c] = "marked"
  /\ held' = Released(OUTER, c)
  /\ pc' = [pc EXCEPT ![c] = "done"]
  /\ UNCHANGED <<reset, exclusive, probe, error, queue>>

OpenDatabaseUnawaited(c) ==
  /\ pc[c] \in {"done", "failed"}
  /\ pc' = [pc EXCEPT ![c] = "using"]
  /\ UNCHANGED <<reset, exclusive, probe, error, held, queue>>

\* maybeReset().then(...): SQLite is instantiated, the database is opened and
\* queries are served.  A rejection goes to .catch instead.
OpenDatabase(c) ==
  /\ pc[c] = "done"
  /\ pc' = [pc EXCEPT ![c] = "using"]
  /\ UNCHANGED <<reset, exclusive, probe, error, held, queue>>

\* The worker ends: the manager drops its locks and its pending requests.
Terminate(c) ==
  /\ pc[c] # "terminated"
  /\ held' = {h \in held : h.ctx # c}
  /\ queue' = [n \in LockNames |-> Dequeued(n, c)[n]]
  /\ pc' = [pc EXCEPT ![c] = "terminated"]
  /\ UNCHANGED <<reset, exclusive, probe, error>>

\* The steps worker c and the lock manager take on its behalf.
Proceed(c) ==
  \/ NoReset(c)
  \/ RequestOuter(c)
  \/ GrantOuter(c)
  \/ ProbeInner(c)
  \/ ClearOk(c)
  \/ ClearFail(c)
  \/ SkipReset(c)
  \/ RequestMarker(c)
  \/ ReleaseOuter(c)
  \/ OpenDatabase(c)

Next == \E c \in Ctx : Proceed(c) \/ Terminate(c)

Spec == Init /\ [][Next]_vars

\* Every enabled step of a live worker is eventually taken; no worker is
\* obliged to end.
FairSpec == Spec /\ \A c \in Ctx : WF_vars(Proceed(c))

(***************************************************************************)
(* Properties                                                              *)
(***************************************************************************)

\* The worker has acquired its marker on 'demo-worker-inner' and is alive.
AcquiredMarker(c) == reset[c] /\ pc[c] \in {"marked", "done", "using"}

\* C1: at most one worker is inside the clearing step at any instant.
C1_ResetMutualExclusion ==
  Cardinality({c \in Ctx : pc[c] = "clearing"}) <= 1

C1_Witness ==
  \E a, b \in Ctx :
    /\ a # b
    /\ pc[a] = "clearing"
    /\ reset[b] /\ pc[b] = "waitOuter"

\* C2: while a live worker a has its marker, no other worker is in the
\* clearing step, and a probe taken by another worker at that time comes
\* back unavailable (the worker goes on to skip the reset).
C2_SkipOnContention ==
  /\ [](\A a, b \in Ctx :
          a # b /\ AcquiredMarker(a) => pc[b] # "clearing")
  /\ [][\A a, b \in Ctx :
          a # b /\ AcquiredMarker(a) /\ pc[b] = "probe" /\ pc'[b] # pc[b]
            => pc'[b] \in {"skipped", "terminated"}]_vars

C2_Witness ==
  \E a, b \in Ctx :
    /\ a # b
    /\ AcquiredMarker(a) /\ pc[a] = "using"
    /\ pc[b] = "skipped"

\* C3 as stated: no worker is clearing while any other worker, whatever its
\* reset parameter, is clearing or using the database.
C3_NoResetWhileTouched ==
  \A a, b \in Ctx :
    a # b /\ pc[a] = "clearing" => pc[b] \notin {"clearing", "using"}

\* C3 amended: no worker is clearing while another worker that was started
\* with the reset parameter is clearing or using the database.
C3_NoResetWhileTouchedByResetters ==
  \A a, b \in Ctx :
    a # b /\ pc[a] = "clearing" /\ reset[b]
      => pc[b] \notin {"clearing", "using"}

C3_Witness ==
  \E a, b \in Ctx :
    /\ a # b
    /\ reset[a] /\ pc[a] = "using"
    /\ reset[b] /\ pc[b] = "marker" /\ error[b] = NoError
    /\ ~exclusive[a] /\ ~exclusive[b]

\* C4: whenever a run of maybeReset() has ended, by success or by failure,
\* the worker no longer holds 'demo-worker-outer'.
C4_OuterReleasedOnEveryExit ==
  \A c \in Ctx :
    pc[c] \in {"done", "using", "failed"} => ~Holds(c, OUTER)

\* C5 as stated: contention on the marker is never a failure - no run
\* rejects with 'failed to acquire inner lock'.
C5_ContentionNeverFails ==
  \A c \in Ctx : error[c] # MarkerError

\* C5 amended: the marker request never waits (nothing is ever queued on
\* 'demo-worker-inner'); it is settled in one step, rejecting with 'failed to
\* acquire inner lock' exactly when another worker holds the inner lock in a
\* conflicting mode, and otherwise granting the marker.
C5_MarkerFailsFast ==
  /\ [](queue[INNER] = <<>>)
  /\ [][\A c \in Ctx :
          pc[c] = "marker" /\ pc'[c] \notin {"marker", "terminated"}
            => IF \E h \in held : /\ h.name = INNER
                                  /\ h.ctx # c
                                  /\ Conflicts(h.mode, MarkerMode(c))
                 THEN pc'[c] = "failed" /\ error'[c] = MarkerError
                 ELSE pc'[c] = "marked" /\ error'[c] = NoError]_vars

C5_Witness ==
  \E a, b \in Ctx :
    /\ a # b
    /\ pc[a] \in {"done", "using"} /\ HoldsIn(a, INNER, "exclusive")
    /\ pc[b] = "failed" /\ error[b] = MarkerError

\* C6: a worker started without the reset parameter never has a lock or a
\* pending request on either name, never is in the clearing step, and none of
\* its steps changes the lock manager's holders or queues.
C6_NoResetFastPath ==
  /\ [](\A c \in Ctx :
          ~reset[c] =>
            /\ \A h \in held : h.ctx # c
            /\ \A n \in LockNames :
                 \A i \in 1..Len(queue[n]) : queue[n][i].ctx # c
            /\ pc[c] \in {"start", "done", "using", "terminated"})
  /\ [][\A c \in Ctx :
          ~reset[c] /\ pc'[c] # pc[c] => held' = held /\ queue' = queue]_vars

C6_Witness ==
  \E a, b \in Ctx :
    /\ ~reset[a] /\ pc[a] = "using"
    /\ reset[b] /\ pc[b] = "clearing"

\* C7 as stated: the worker does not hold 'demo-worker-outer' while it
\* requests or acquires its marker.
C7_OuterReleasedBeforeMarker ==
  \A c \in Ctx : pc[c] \in {"marker", "marked"} => ~Holds(c, OUTER)

\* C7 amended: the marker is requested and acquired while the worker still
\* holds 'demo-worker-outer'; the outer lock is given up by a live worker
\* only afterwards, in a step taken with the marker held.
C7_OuterReleasedAfterMarker ==
  /\ [](\A c \in Ctx :
          pc[c] \in {"probe", "clearing", "skipped", "marker", "marked"}
            => Holds(c, OUTER))
  /\ [][\A c \in Ctx :
          Holds(c, OUTER) /\ ~Holds(c, OUTER)' /\ pc'[c] # "terminated"
            => /\ pc[c] = "marked" /\ pc'[c] = "done"
               /\ HoldsIn(c, INNER, MarkerMode(c))
               /\ HoldsIn(c, INNER, MarkerMode(c))']_vars

C7_Witness ==
  \E c \in Ctx :
    /\ pc[c] = "marked"
    /\ Holds(c, OUTER)
    /\ HoldsIn(c, INNER, MarkerMode(c))

\* C8: under fair scheduling every worker waiting for 'demo-worker-outer'
\* eventually acquires it (unless it ends itself first), whatever the other
\* workers do and without any of them ending.
C8_OuterLiveness ==
  \A c \in Ctx :
    (pc[c] = "waitOuter") ~> (Holds(c, OUTER) \/ pc[c] = "terminated")

\* C9: once maybeReset() has succeeded in a worker started with the reset
\* parameter, the worker holds 'demo-worker-inner' in the mode its exclusive
\* parameter selects, in every state until it ends.
C9_MarkerLifetime ==
  /\ [](\A c \in Ctx :
          reset[c] /\ pc[c] \in {"done", "using"} =>
            HoldsIn(c, INNER, IF exclusive[c] THEN "exclusive" ELSE "shared"))
  /\ [][\A c \in Ctx :
          reset[c] /\ pc[c] \in {"done", "using"} /\ pc'[c] # "terminated"
            => /\ pc'[c] \in {"done", "using"}
               /\ {h \in held' : h.ctx = c} = {h \in held : h.ctx = c}]_vars

C9_Witness ==
  \E a, b \in Ctx :
    /\ a # b
    /\ reset[a] /\ exclusive[a] /\ pc[a] = "using"
    /\ HoldsIn(a, INNER, "exclusive")
    /\ reset[b] /\ ~exclusive[b] /\ pc[b] = "terminated"

\* C10: a worker started with the reset parameter uses the database only
\* after its run succeeded and while it holds its marker; a worker whose run
\* failed never opens the database.
C10_OpenAfterMarker ==
  /\ [](\A c \in Ctx :
          reset[c] /\ pc[c] = "using" =>
            error[c] = NoError /\ Holds(c, INNER))
  /\ [][\A c \in Ctx :
          /\ pc'[c] = "using" /\ pc[c] # "using" => pc[c] = "done"
          /\ pc[c] = "failed" => pc'[c] \in {"failed", "terminated"}]_vars

C10_Witness ==
  \E a, b \in Ctx :
    /\ reset[a] /\ pc[a] = "using" /\ Holds(a, INNER)
    /\ reset[b] /\ pc[b] = "failed"

\* C11: at most one worker holds 'demo-worker-outer', so at most one worker
\* is between its probe and the end of its reset or skip; a waiting worker is
\* let past the outer lock only when no worker holds it.
C11_ProbePhaseSerialized ==
  /\ [](/\ Cardinality({h \in held : h.name = OUTER}) <= 1
        /\ Cardinality({c \in Ctx :
                          pc[c] \in {"probe", "clearing", "skipped"}}) <= 1)
  /\ [][\A b \in Ctx :
          pc[b] = "waitOuter" /\ pc'[b] = "probe"
            => \A a \in Ctx : ~Holds(a, OUTER)]_vars

C11_Witness ==
  \E a, b \in Ctx :
    /\ a # b
    /\ pc[a] = "skipped" /\ Holds(a, OUTER)
    /\ pc[b] = "waitOuter"

\* C12: a worker in the clearing step holds 'demo-worker-inner' exclusively
\* as its only holder and holds 'demo-worker-outer', and it keeps the outer
\* lock through the step that ends the clearing.
C12_ClearingUnderBothLocks ==
  /\ [](\A c \in Ctx :
          pc[c] = "clearing" =>
            /\ HoldsIn(c, INNER, "exclusive")
            /\ \A h \in held : h.name = INNER => h.ctx = c
            /\ HoldsIn(c, OUTER, "exclusive"))
  /\ [][\A c \in Ctx :
          pc[c] = "clearing" /\ pc'[c] # "terminated" => Holds(c, OUTER)']_vars

C12_Witness ==
  \E a, b \in Ctx :
    /\ a # b
    /\ pc[a] = "clearing"
    /\ reset[b] /\ pc[b] = "terminated" /\ probe[b] # "pending"

\* C13: the probe lock is given up by the very step that ends the clearing,
\* by success or by error, so a worker about to request its marker, or one
\* whose clearing failed, holds nothing on 'demo-worker-inner'.
C13_ProbeLockReleased ==
  /\ [](\A c \in Ctx :
          pc[c] \in {"skipped", "marker", "failed"} => ~Holds(c, INNER))
  /\ [][\A c \in Ctx :
          pc[c] = "clearing" /\ pc'[c] # "clearing" => ~Holds(c, INNER)']_vars

C13_Witness ==
  \E c \in Ctx :
    /\ pc[c] = "failed" /\ error[c] = ClearError
    /\ probe[c] = "granted"
    /\ \A h \in held : h.name # INNER

\* C14: a worker whose clearing step raised an error is failed (or has ended)
\* ever after: it never requests or holds a marker and never opens the
\* database.
C14_ClearErrorIsFatal ==
  /\ [](\A c \in Ctx :
          error[c] = ClearError =>
            /\ pc[c] \in {"failed", "terminated"}
            /\ ~Holds(c, INNER))
  /\ [][\A c \in Ctx :
          error[c] # ClearError /\ error'[c] = ClearError
            => pc[c] = "clearing" /\ pc'[c] = "failed"]_vars

C14_Witness ==
  \E a, b \in Ctx :
    /\ pc[a] = "failed" /\ error[a] = ClearError
    /\ reset[b] /\ pc[b] = "waitOuter"

\* C15: a worker whose probe was granted and whose clearing ended without
\* error obtains its marker on the request that follows, in either mode; a
\* run that reset the resource never rejects with 'failed to acquire inner
\* lock'.
C15_ResetterGetsMarker ==
  /\ [](\A c \in Ctx : probe[c] = "granted" => error[c] # MarkerError)
  /\ [][\A c \in Ctx :
          /\ probe[c] = "granted"
          /\ pc[c] = "marker" /\ pc'[c] \notin {"marker", "terminated"}
          => /\ pc'[c] = "marked"
             /\ HoldsIn(c, INNER, IF exclusive[c] THEN "exclusive"
                                                  ELSE "shared")']_vars

C15_Witness ==
  \E a, b \in Ctx :
    /\ a # b
    /\ probe[a] = "granted" /\ exclusive[a] /\ pc[a] = "marked"
    /\ reset[b] /\ pc[b] = "waitOuter"

\* C16: the marker request of worker c is rejected exactly when another live
\* worker has a marker and c's or that worker's exclusive parameter is
\* present; otherwise (no marker held, or shared against shared) it is
\* granted.
C16_MarkerRejectedIffConflict ==
  [][\A c \in Ctx :
       pc[c] = "marker" /\ pc'[c] \notin {"marker", "terminated"}
         => LET conflict == \E a \in Ctx :
                              /\ a # c
                              /\ AcquiredMarker(a)
                              /\ (exclusive[a] \/ exclusive[c])
            IN  /\ conflict => pc'[c] = "failed" /\ error'[c] = MarkerError
                /\ ~conflict => pc'[c] = "marked" /\ error'[c] = NoError]_vars

C16_Witness ==
  \E a, b, c \in Ctx :
    /\ a # b /\ b # c /\ a # c
    /\ AcquiredMarker(a) /\ ~exclusive[a]
    /\ AcquiredMarker(b) /\ ~exclusive[b]
    /\ exclusive[c] /\ pc[c] = "failed" /\ error[c] = MarkerError

\* Every worker has the reset parameter and none the exclusive parameter.
AllResetShared == \A c \in Ctx : reset[c] /\ ~exclusive[c]

\* No clearing step has raised an error.
NoClearError == \A c \in Ctx : error[c] # ClearError

\* C17: when every worker has the reset parameter and none the exclusive
\* parameter and no clearing step fails, then under fair scheduling every
\* worker eventually completes maybeReset() holding a shared marker (unless
\* it ends first); while no worker has ended, the first worker to probe, and
\* only it, performs the reset; no worker is clearing while another one is
\* alive with its marker; and a probe is granted only when every worker that
\* probed before has ended.
C17_AllSharedComplete ==
  /\ [](AllResetShared /\ NoClearError =>
          /\ \A c \in Ctx : error[c] = NoError
          /\ (\A c \in Ctx : pc[c] # "terminated") =>
               Cardinality({c \in Ctx : probe[c] = "granted"}) =
                 IF \E c \in Ctx : probe[c] # "pending" THEN 1 ELSE 0
          /\ \A a, b \in Ctx :
               a # b /\ AcquiredMarker(a) => pc[b] # "clearing")
  /\ [][AllResetShared /\ NoClearError =>
          \A a, b \in Ctx :
            a # b /\ probe[b] = "pending" /\ probe'[b] = "granted"
              => probe[a] = "pending" \/ pc[a] = "terminated"]_vars
  /\ \A c \in Ctx :
       <>(\/ ~AllResetShared
          \/ ~NoClearError
          \/ pc[c] = "terminated"
          \/ /\ pc[c] \in {"done", "using"}
             /\ HoldsIn(c, INNER, "shared")
             /\ ~Holds(c, OUTER))

C17_Witness ==
  /\ AllResetShared
  /\ \A c \in Ctx :
       /\ pc[c] \in {"done", "using"}
       /\ HoldsIn(c, INNER, "shared")
  /\ Cardinality({c \in Ctx : probe[c] = "granted"}) = 1
  /\ Cardinality({c \in Ctx : probe[c] = "null"}) = NumCtx - 1

====
